---- MODULE Spec2Model ----
(***************************************************************************)
(* A model of src/store.ts: the permission registry (permissionsMap and    *)
(* the Restrict decorator) and the Store class (allowedToRead,             *)
(* allowedToWrite, read, write, writeEntries, entries).                    *)
(*                                                                         *)
(* A path "a:b:c" is modelled by the sequence its split(":") produces,     *)
(* <<"a", "b", "c">>; rest.join(":") followed by the callee's split(":")   *)
(* is Tail.  Store objects live in the sequence heap and are named by      *)
(* their index.  Of the members a Store inherits from Store.prototype and  *)
(* Object.prototype the model follows toString (InheritedMembers); the     *)
(* other key names are names of no inherited member.                       *)
(***************************************************************************)
EXTENDS Integers, Sequences, FiniteSets, TLC

VARIABLES heap, permissionsMap, i, last, calls

vars == <<heap, permissionsMap, i, last, calls>>

(***************************************************************************)
(* Bounds of the model.                                                    *)
(***************************************************************************)
MaxCalls == 3

(***************************************************************************)
(* Permission (line 3) and the key names the callers use.                  *)
(***************************************************************************)
Permission == {"r", "w", "rw", "none"}

Keys == {"a", "b", "defaultPolicy"}

(***************************************************************************)
(* The classes: Store and a subclass Child (class Child extends Store      *)
(* { b = 1 }), the way callers attach type-level permissions.  ProtoChain  *)
(* is the chain Object.getPrototypeOf walks from an instance.              *)
(***************************************************************************)
Classes == {"Store", "Child"}

ProtoChain(cls) ==
  IF cls = "Child" THEN <<"Child", "Store", "Object">> ELSE <<"Store", "Object">>

DeclaredFields(cls) == IF cls = "Child" THEN {"b"} ELSE {}

(***************************************************************************)
(* StoreValue (lines 5-11).  Every value is a record [t, v]:               *)
(*   undef            undefined                                            *)
(*   prim, v          a JSON primitive                                     *)
(*   arr              a JSON array                                         *)
(*   store, v         the Store heap[v]                                    *)
(*   fresh            a Store a producer has just built, held by nothing   *)
(*   fnCounter        the producer () => ++i                               *)
(*   fnConst, v       a producer () => v, v a primitive                    *)
(*   fnUndef          the producer () => undefined                         *)
(*   fnStore, v       a producer () => s, s the Store heap[v]              *)
(*   fnFresh          the producer () => new Store()                       *)
(*   fnToString       Object.prototype.toString, as this["toString"] gives *)
(*   string           the string "[object Undefined]" it returns when      *)
(*                    called as value()                                    *)
(*   r, w, rw, none   the strings that are Permission values               *)
(* A plain JSON object is [t |-> "obj", e |-> <<[k |-> path, v |-> value], *)
(* ...>>], its entries in Object.entries order, k the split key.           *)
(***************************************************************************)
Undef == [t |-> "undef", v |-> 0]

Prim(n) == [t |-> "prim", v |-> n]

Arr == [t |-> "arr", v |-> 0]

StoreRef(s) == [t |-> "store", v |-> s]

Fresh == [t |-> "fresh", v |-> 0]

FnCounter == [t |-> "fnCounter", v |-> 0]

FnConst(n) == [t |-> "fnConst", v |-> n]

FnUndef == [t |-> "fnUndef", v |-> 0]

FnStore(s) == [t |-> "fnStore", v |-> s]

FnFresh == [t |-> "fnFresh", v |-> 0]

FnToString == [t |-> "fnToString", v |-> 0]

ObjectUndefined == [t |-> "string", v |-> 0]

PermissionString(p) == [t |-> p, v |-> 0]

Obj(entries) == [t |-> "obj", e |-> entries]

Entry(path, value) == [k |-> path, v |-> value]

IsStore(value) == value.t = "store"

IsFunction(value) ==
  value.t \in {"fnCounter", "fnConst", "fnUndef", "fnStore", "fnFresh", "fnToString"}

(***************************************************************************)
(* new Store() (lines 81-85), and new Child(): the own fields other than   *)
(* defaultPolicy and dynamicValues, and the dynamicValues Map in insertion *)
(* order.                                                                  *)
(***************************************************************************)
NewInstance(cls, policy) ==
  [cls |-> cls,
   defaultPolicy |-> policy,
   fields |-> [k \in DeclaredFields(cls) |-> Prim(1)],
   dynamicValues |-> <<>>]

NewStore == NewInstance("Store", "rw")

(***************************************************************************)
(* permissionsMap (line 24): owner -> key -> Permission, an owner being a  *)
(* class prototype or an instance.                                         *)
(***************************************************************************)
Proto(cls) == [proto |-> cls, inst |-> 0]

Inst(s) == [proto |-> "", inst |-> s]

HasPermission(pm, owner, key) ==
  owner \in DOMAIN pm /\ key \in DOMAIN pm[owner]

(***************************************************************************)
(* getPermissionForKey (lines 26-42): the instance's own entry, else the   *)
(* first prototype of the chain that has one, else instance.defaultPolicy. *)
(***************************************************************************)
RECURSIVE ClassPermission(_, _, _, _)
ClassPermission(pm, chain, key, fallback) ==
  IF chain = <<>> THEN fallback
  ELSE IF HasPermission(pm, Proto(Head(chain)), key)
       THEN pm[Proto(Head(chain))][key]
       ELSE ClassPermission(pm, Tail(chain), key, fallback)

\* A resolution that asks the types before the instance.
GetPermissionForKey_TypeFirst(pm, h, s, key) ==
  ClassPermission(pm, ProtoChain(h[s].cls), key,
                  IF HasPermission(pm, Inst(s), key)
                  THEN pm[Inst(s)][key]
                  ELSE h[s].defaultPolicy)

\* A resolution that falls back on read-write, whatever the defaultPolicy.
GetPermissionForKey_OpenFallback(pm, h, s, key) ==
  IF HasPermission(pm, Inst(s), key)
  THEN pm[Inst(s)][key]
  ELSE ClassPermission(pm, ProtoChain(h[s].cls), key, "rw")

GetPermissionForKey(pm, h, s, key) ==
  IF HasPermission(pm, Inst(s), key)
  THEN pm[Inst(s)][key]
  ELSE ClassPermission(pm, ProtoChain(h[s].cls), key, h[s].defaultPolicy)

(***************************************************************************)
(* Restrict (lines 69-79): permissionsMap.get(target).set(key, permission).*)
(***************************************************************************)
SetPermission(pm, owner, key, permission) ==
  LET old == IF owner \in DOMAIN pm THEN pm[owner] ELSE <<>>
  IN (owner :> ((key :> permission) @@ old)) @@ pm

(***************************************************************************)
(* allowedToRead, allowedToWrite (lines 87-95).                            *)
(***************************************************************************)
\* A read gate that takes any permission but none.
AllowedToRead_NotNone(pm, h, s, key) ==
  GetPermissionForKey(pm, h, s, key) # "none"

\* A write gate that also opens for read.
AllowedToWrite_OrRead(pm, h, s, key) ==
  GetPermissionForKey(pm, h, s, key) \in {"w", "rw", "r"}

AllowedToRead(pm, h, s, key) ==
  GetPermissionForKey(pm, h, s, key) \in {"r", "rw"}

AllowedToWrite(pm, h, s, key) ==
  GetPermissionForKey(pm, h, s, key) \in {"w", "rw"}

(***************************************************************************)
(* The dynamicValues Map (line 85): has, get, set and keys, in insertion   *)
(* order; set on a key the Map holds keeps the key's place.                *)
(***************************************************************************)
MapHas(m, key) == \E n \in 1..Len(m) : m[n].k = key

MapGet(m, key) ==
  IF MapHas(m, key)
  THEN m[CHOOSE n \in 1..Len(m) : m[n].k = key].v
  ELSE Undef

MapSet(m, key, value) ==
  IF MapHas(m, key)
  THEN [n \in 1..Len(m) |-> IF m[n].k = key THEN [k |-> key, v |-> value] ELSE m[n]]
  ELSE Append(m, [k |-> key, v |-> value])

MapKeys(m) == [n \in 1..Len(m) |-> m[n].k]

(***************************************************************************)
(* key in this && key !== "dynamicValues" && key !== "defaultPolicy"       *)
(* (lines 176, 183).  in answers for the own fields and for the members    *)
(* of the prototype chain.                                                 *)
(***************************************************************************)
InheritedMembers == {"toString"}

InThis(h, s, key) ==
  /\ key \in DOMAIN h[s].fields \cup InheritedMembers
  /\ key # "dynamicValues"
  /\ key # "defaultPolicy"

(***************************************************************************)
(* getRawValue (lines 175-180) and setRawValue (lines 182-188).  this[key] *)
(* reads the own field, else the inherited member; this[key] = value sets  *)
(* the own field, which it creates over an inherited member.               *)
(***************************************************************************)
GetRawValue(h, s, key) ==
  IF InThis(h, s, key)
  THEN IF key \in DOMAIN h[s].fields THEN h[s].fields[key] ELSE FnToString
  ELSE MapGet(h[s].dynamicValues, key)

\* A setter that stores nothing.
SetRawValue_Dropped(h, s, key, value) == h

\* A setter that stores nothing in the dynamicValues Map.
SetRawValue_FieldsOnly(h, s, key, value) ==
  IF InThis(h, s, key) THEN [h EXCEPT ![s].fields = (key :> value) @@ @] ELSE h

\* A setter that empties the dynamicValues Map before it sets the key.
SetRawValue_Clearing(h, s, key, value) ==
  IF InThis(h, s, key)
  THEN [h EXCEPT ![s].fields = (key :> value) @@ @]
  ELSE [h EXCEPT ![s].dynamicValues = <<[k |-> key, v |-> value]>>]

\* A setter without the test on the bookkeeping names: a Permission string
\* written under defaultPolicy lands in the field.
SetRawValue_Unguarded(h, s, key, value) ==
  IF key = "defaultPolicy" /\ value.t \in Permission
  THEN [h EXCEPT ![s].defaultPolicy = value.t]
  ELSE IF InThis(h, s, key)
       THEN [h EXCEPT ![s].fields = (key :> value) @@ @]
       ELSE [h EXCEPT ![s].dynamicValues = MapSet(@, key, value)]

SetRawValue(h, s, key, value) ==
  IF InThis(h, s, key)
  THEN [h EXCEPT ![s].fields = (key :> value) @@ @]
  ELSE [h EXCEPT ![s].dynamicValues = MapSet(@, key, value)]

(***************************************************************************)
(* getAllKeys (lines 190-197): Object.keys(this) without the two           *)
(* bookkeeping names, then the dynamicValues keys, duplicates collapsed.   *)
(***************************************************************************)
RECURSIVE SetToSeq(_)
SetToSeq(S) ==
  IF S = {} THEN <<>>
  ELSE LET x == CHOOSE y \in S : TRUE IN <<x>> \o SetToSeq(S \ {x})

GetAllKeys(h, s) ==
  LET classKeys == SetToSeq(DOMAIN h[s].fields \ {"dynamicValues", "defaultPolicy"})
      dynamicKeys == MapKeys(h[s].dynamicValues)
  IN classKeys \o SelectSeq(dynamicKeys, LAMBDA k : k \notin DOMAIN h[s].fields
                                                     \/ k \in {"dynamicValues", "defaultPolicy"})

(***************************************************************************)
(* isJSONObject (lines 44-51).                                             *)
(***************************************************************************)
IsJSONObject(value) == value.t = "obj"

(***************************************************************************)
(* resolveValue (lines 62-67): a function is called, anything else is      *)
(* returned as it is.  The call of the counter producer advances its i;    *)
(* the call of () => new Store() builds a Store; the call of the inherited *)
(* toString, with no receiver, returns "[object Undefined]".               *)
(***************************************************************************)
\* A resolution that calls the counter producer without advancing it, as
\* a cache of its first result would.
ResolveValue_Cached(h, cnt, value) ==
  CASE value.t = "fnCounter" -> [val |-> Prim(cnt + 1), i |-> cnt, h |-> h]
    [] value.t = "fnConst" -> [val |-> Prim(value.v), i |-> cnt, h |-> h]
    [] value.t = "fnUndef" -> [val |-> Undef, i |-> cnt, h |-> h]
    [] value.t = "fnStore" -> [val |-> StoreRef(value.v), i |-> cnt, h |-> h]
    [] value.t = "fnFresh" ->
         [val |-> StoreRef(Len(h) + 1), i |-> cnt, h |-> Append(h, NewStore)]
    [] value.t = "fnToString" -> [val |-> ObjectUndefined, i |-> cnt, h |-> h]
    [] OTHER -> [val |-> value, i |-> cnt, h |-> h]

ResolveValue(h, cnt, value) ==
  CASE value.t = "fnCounter" -> [val |-> Prim(cnt + 1), i |-> cnt + 1, h |-> h]
    [] value.t = "fnConst" -> [val |-> Prim(value.v), i |-> cnt, h |-> h]
    [] value.t = "fnUndef" -> [val |-> Undef, i |-> cnt, h |-> h]
    [] value.t = "fnStore" -> [val |-> StoreRef(value.v), i |-> cnt, h |-> h]
    [] value.t = "fnFresh" ->
         [val |-> StoreRef(Len(h) + 1), i |-> cnt, h |-> Append(h, NewStore)]
    [] value.t = "fnToString" -> [val |-> ObjectUndefined, i |-> cnt, h |-> h]
    [] OTHER -> [val |-> value, i |-> cnt, h |-> h]

(***************************************************************************)
(* Outcomes of a call: a returned value, or the Error thrown at lines 101, *)
(* 123, 133, 143, with the operation and the key of its message.           *)
(***************************************************************************)
Ok(value) == [status |-> "ok", val |-> value]

AccessDenied(op, key) == [status |-> "AccessDenied", op |-> op, key |-> key]

\* A Store built during the call and held by no slot of the heap the call
\* leaves is reported as Fresh.
Reported(res, n) ==
  IF res.status = "ok" /\ IsStore(res.val) /\ res.val.v > n THEN Ok(Fresh) ELSE res

(***************************************************************************)
(* read (lines 97-116).                                                    *)
(***************************************************************************)
RECURSIVE ReadStore(_, _, _, _, _)
\* A read that throws where it cannot go on through a value that is not a
\* Store.
ReadStore_Strict(pm, h, cnt, s, path) ==
  LET key == Head(path)
      rest == Tail(path)
  IN IF ~AllowedToRead(pm, h, s, key)
     THEN [res |-> AccessDenied("Read", key), i |-> cnt]
     ELSE LET rv == ResolveValue(h, cnt, GetRawValue(h, s, key))
          IN IF rest = <<>>
             THEN [res |-> Reported(Ok(rv.val), Len(h)), i |-> rv.i]
             ELSE IF IsStore(rv.val)
                  THEN LET r == ReadStore(pm, rv.h, rv.i, rv.val.v, rest)
                       IN [res |-> Reported(r.res, Len(h)), i |-> r.i]
                  ELSE [res |-> AccessDenied("Read", Head(rest)), i |-> rv.i]

\* A read that denies an unreadable key only when its slot holds a value,
\* and returns undefined when it holds none.
ReadStore_DeniesHeld(pm, h, cnt, s, path) ==
  LET key == Head(path)
      rest == Tail(path)
  IN IF ~AllowedToRead(pm, h, s, key)
     THEN IF GetRawValue(h, s, key) = Undef
          THEN [res |-> Ok(Undef), i |-> cnt]
          ELSE [res |-> AccessDenied("Read", key), i |-> cnt]
     ELSE LET rv == ResolveValue(h, cnt, GetRawValue(h, s, key))
          IN IF rest = <<>>
             THEN [res |-> Reported(Ok(rv.val), Len(h)), i |-> rv.i]
             ELSE IF IsStore(rv.val)
                  THEN LET r == ReadStore(pm, rv.h, rv.i, rv.val.v, rest)
                       IN [res |-> Reported(r.res, Len(h)), i |-> r.i]
                  ELSE [res |-> Ok(Undef), i |-> rv.i]

ReadStore(pm, h, cnt, s, path) ==
  LET key == Head(path)
      rest == Tail(path)
  IN IF ~AllowedToRead(pm, h, s, key)
     THEN [res |-> AccessDenied("Read", key), i |-> cnt]
     ELSE LET rv == ResolveValue(h, cnt, GetRawValue(h, s, key))
          IN IF rest = <<>>
             THEN [res |-> Reported(Ok(rv.val), Len(h)), i |-> rv.i]
             ELSE IF IsStore(rv.val)
                  THEN LET r == ReadStore(pm, rv.h, rv.i, rv.val.v, rest)
                       IN [res |-> Reported(r.res, Len(h)), i |-> r.i]
                  ELSE [res |-> Ok(Undef), i |-> rv.i]

(***************************************************************************)
(* write (lines 118-149), convertToStoreValue (lines 53-60) and            *)
(* writeEntries (lines 151-155).  Each returns the heap it leaves, the     *)
(* counter and its outcome; a throw leaves the heap as it was at the throw.*)
(***************************************************************************)
RECURSIVE WriteStore(_, _, _, _, _, _)
RECURSIVE ConvertToStoreValue(_, _, _, _)
RECURSIVE WriteEntriesStore(_, _, _, _, _)

\* A write that returns, from an intermediate segment, the container it has
\* delegated to instead of what the delegation returned.
WriteStore_ReturnsNested(pm, h, cnt, s, path, value) ==
  LET key == Head(path)
      rest == Tail(path)
      nested(r, n) == IF r.res.status = "ok" THEN [r EXCEPT !.res = Ok(StoreRef(n))] ELSE r
  IN IF rest = <<>>
     THEN IF ~AllowedToWrite(pm, h, s, key)
          THEN [h |-> h, i |-> cnt, res |-> AccessDenied("Write", key)]
          ELSE LET c == IF IsJSONObject(value)
                        THEN ConvertToStoreValue(pm, h, cnt, value)
                        ELSE [h |-> h, i |-> cnt, res |-> Ok(value)]
               IN IF c.res.status # "ok"
                  THEN c
                  ELSE [h |-> SetRawValue(c.h, s, key, c.res.val), i |-> c.i, res |-> c.res]
     ELSE IF ~AllowedToRead(pm, h, s, key)
          THEN [h |-> h, i |-> cnt, res |-> AccessDenied("Read", key)]
          ELSE LET rv == ResolveValue(h, cnt, GetRawValue(h, s, key))
               IN IF IsStore(rv.val)
                  THEN LET r == WriteStore(pm, rv.h, rv.i, rv.val.v, rest, value)
                       IN IF rv.val.v > Len(h)
                          THEN [h |-> h, i |-> r.i, res |-> Reported(r.res, Len(h))]
                          ELSE nested(r, rv.val.v)
                  ELSE IF ~AllowedToWrite(pm, h, s, key)
                       THEN [h |-> h, i |-> rv.i, res |-> AccessDenied("Write", key)]
                       ELSE LET n == Len(h) + 1
                                h1 == SetRawValue(Append(h, NewStore), s, key, StoreRef(n))
                            IN nested(WriteStore(pm, h1, rv.i, n, rest, value), n)

WriteStore(pm, h, cnt, s, path, value) ==
  LET key == Head(path)
      rest == Tail(path)
  IN IF rest = <<>>
     THEN IF ~AllowedToWrite(pm, h, s, key)
          THEN [h |-> h, i |-> cnt, res |-> AccessDenied("Write", key)]
          ELSE LET c == IF IsJSONObject(value)
                        THEN ConvertToStoreValue(pm, h, cnt, value)
                        ELSE [h |-> h, i |-> cnt, res |-> Ok(value)]
               IN IF c.res.status # "ok"
                  THEN c
                  ELSE [h |-> SetRawValue(c.h, s, key, c.res.val), i |-> c.i, res |-> c.res]
     ELSE IF ~AllowedToRead(pm, h, s, key)
          THEN [h |-> h, i |-> cnt, res |-> AccessDenied("Read", key)]
          ELSE LET rv == ResolveValue(h, cnt, GetRawValue(h, s, key))
               IN IF IsStore(rv.val)
                  THEN LET r == WriteStore(pm, rv.h, rv.i, rv.val.v, rest, value)
                       IN IF rv.val.v > Len(h)
                          THEN [h |-> h, i |-> r.i, res |-> Reported(r.res, Len(h))]
                          ELSE r
                  ELSE IF ~AllowedToWrite(pm, h, s, key)
                       THEN [h |-> h, i |-> rv.i, res |-> AccessDenied("Write", key)]
                       ELSE LET n == Len(h) + 1
                                h1 == SetRawValue(Append(h, NewStore), s, key, StoreRef(n))
                            IN WriteStore(pm, h1, rv.i, n, rest, value)

ConvertToStoreValue(pm, h, cnt, value) ==
  IF IsJSONObject(value)
  THEN LET n == Len(h) + 1
           r == WriteEntriesStore(pm, Append(h, NewStore), cnt, n, value.e)
       IN IF r.res.status # "ok"
          THEN [h |-> h, i |-> r.i, res |-> r.res]
          ELSE [h |-> r.h, i |-> r.i, res |-> Ok(StoreRef(n))]
  ELSE [h |-> h, i |-> cnt, res |-> Ok(value)]

\* An import that undoes the keys it has written when a later key fails.
WriteEntriesStore_RollBack(pm, h, cnt, s, entries) ==
  IF entries = <<>>
  THEN [h |-> h, i |-> cnt, res |-> Ok(Undef)]
  ELSE LET c == ConvertToStoreValue(pm, h, cnt, Head(entries).v)
       IN IF c.res.status # "ok"
          THEN c
          ELSE LET w == WriteStore(pm, c.h, c.i, s, Head(entries).k, c.res.val)
               IN IF w.res.status # "ok"
                  THEN [w EXCEPT !.h = h]
                  ELSE LET r == WriteEntriesStore(pm, w.h, w.i, s, Tail(entries))
                       IN IF r.res.status # "ok" THEN [r EXCEPT !.h = h] ELSE r

WriteEntriesStore(pm, h, cnt, s, entries) ==
  IF entries = <<>>
  THEN [h |-> h, i |-> cnt, res |-> Ok(Undef)]
  ELSE LET c == ConvertToStoreValue(pm, h, cnt, Head(entries).v)
       IN IF c.res.status # "ok"
          THEN c
          ELSE LET w == WriteStore(pm, c.h, c.i, s, Head(entries).k, c.res.val)
               IN IF w.res.status # "ok"
                  THEN w
                  ELSE WriteEntriesStore(pm, w.h, w.i, s, Tail(entries))

(***************************************************************************)
(* entries (lines 157-173).  A snapshot is [t |-> "snap", m |-> key ->     *)
(* value or snapshot].  The recursion has no guard: on a cycle of readable *)
(* Stores it never returns (the call stack overflows), which is the        *)
(* outcome RangeError.  depth counts the nested calls still possible on an *)
(* acyclic heap.                                                           *)
(***************************************************************************)
Snap(m) == [t |-> "snap", m |-> m]

RangeError == [status |-> "RangeError"]

RECURSIVE EntriesStore(_, _, _, _, _)
RECURSIVE EntriesLoop(_, _, _, _, _, _, _)

\* A loop that copies every key, readable or not.
EntriesLoop_Unfiltered(pm, h, cnt, s, keys, result, depth) ==
  IF keys = <<>>
  THEN [res |-> Ok(Snap(result)), i |-> cnt]
  ELSE LET key == Head(keys)
           rv == ResolveValue(h, cnt, GetRawValue(h, s, key))
       IN IF IsStore(rv.val)
          THEN IF depth = 0
               THEN [res |-> RangeError, i |-> rv.i]
               ELSE LET sub == EntriesStore(pm, rv.h, rv.i, rv.val.v, depth - 1)
                    IN IF sub.res.status # "ok"
                       THEN sub
                       ELSE EntriesLoop(pm, h, sub.i, s, Tail(keys),
                                        (key :> sub.res.val) @@ result, depth)
          ELSE IF rv.val # Undef
               THEN EntriesLoop(pm, h, rv.i, s, Tail(keys),
                                (key :> rv.val) @@ result, depth)
               ELSE EntriesLoop(pm, h, rv.i, s, Tail(keys), result, depth)

EntriesLoop(pm, h, cnt, s, keys, result, depth) ==
  IF keys = <<>>
  THEN [res |-> Ok(Snap(result)), i |-> cnt]
  ELSE LET key == Head(keys)
       IN IF ~AllowedToRead(pm, h, s, key)
          THEN EntriesLoop(pm, h, cnt, s, Tail(keys), result, depth)
          ELSE LET rv == ResolveValue(h, cnt, GetRawValue(h, s, key))
               IN IF IsStore(rv.val)
                  THEN IF depth = 0
                       THEN [res |-> RangeError, i |-> rv.i]
                       ELSE LET sub == EntriesStore(pm, rv.h, rv.i, rv.val.v, depth - 1)
                            IN IF sub.res.status # "ok"
                               THEN sub
                               ELSE EntriesLoop(pm, h, sub.i, s, Tail(keys),
                                                (key :> sub.res.val) @@ result, depth)
                  ELSE IF rv.val # Undef
                       THEN EntriesLoop(pm, h, rv.i, s, Tail(keys),
                                        (key :> rv.val) @@ result, depth)
                       ELSE EntriesLoop(pm, h, rv.i, s, Tail(keys), result, depth)

EntriesStore(pm, h, cnt, s, depth) ==
  EntriesLoop(pm, h, cnt, s, GetAllKeys(h, s), <<>>, depth)

(***************************************************************************)
(* The state.  heap holds the Store objects built so far, permissionsMap   *)
(* the registry, i the counter the producer () => ++i closes over.  last   *)
(* records the latest call: its operation, receiver, arguments, outcome,   *)
(* and the heap and counter it started from; run counts the reads of the   *)
(* same key that have followed a write of the counter producer to it, and  *)
(* base is the counter at that write.  calls counts the calls made.        *)
(***************************************************************************)
NoCall ==
  [op |-> "none", s |-> 0, path |-> <<>>, value |-> Undef, entries |-> <<>>,
   res |-> Ok(Undef), pre |-> <<>>, prei |-> 0, run |-> 0, base |-> 0]

Stores == 1..Len(heap)

Init ==
  /\ heap = <<NewStore>>
  /\ permissionsMap = <<>>
  /\ i = 0
  /\ last = NoCall
  /\ calls = 0

CanCall == calls < MaxCalls

Called(rec) ==
  /\ calls' = calls + 1
  /\ last' = [rec EXCEPT !.pre = heap, !.prei = i]

\* new cls(), followed by the assignment of its defaultPolicy field.
Construct(cls, policy) ==
  /\ CanCall
  /\ heap' = Append(heap, NewInstance(cls, policy))
  /\ Called([NoCall EXCEPT !.op = "new", !.s = Len(heap) + 1])
  /\ UNCHANGED <<permissionsMap, i>>

\* store.defaultPolicy = policy (line 84, a public field).
SetDefaultPolicy(s, policy) ==
  /\ CanCall
  /\ heap' = [heap EXCEPT ![s].defaultPolicy = policy]
  /\ Called([NoCall EXCEPT !.op = "defaultPolicy", !.s = s])
  /\ UNCHANGED <<permissionsMap, i>>

\* Restrict(permission)(target, key), target a prototype or an instance.
Restrict(owner, key, permission) ==
  /\ CanCall
  /\ permissionsMap' = SetPermission(permissionsMap, owner, key, permission)
  /\ Called([NoCall EXCEPT !.op = "Restrict", !.s = owner.inst, !.path = <<key>>])
  /\ UNCHANGED <<heap, i>>

AllowedToReadCall(s, key) ==
  /\ CanCall
  /\ Called([NoCall EXCEPT !.op = "allowedToRead", !.s = s, !.path = <<key>>,
                           !.res = Ok(AllowedToRead(permissionsMap, heap, s, key))])
  /\ UNCHANGED <<heap, permissionsMap, i>>

AllowedToWriteCall(s, key) ==
  /\ CanCall
  /\ Called([NoCall EXCEPT !.op = "allowedToWrite", !.s = s, !.path = <<key>>,
                           !.res = Ok(AllowedToWrite(permissionsMap, heap, s, key))])
  /\ UNCHANGED <<heap, permissionsMap, i>>

\* A read that keeps what a producer returned in the producer's slot.
Read_Caching(s, path) ==
  LET r == ReadStore(permissionsMap, heap, i, s, path)
      cached == /\ Len(path) = 1
                /\ r.res.status = "ok"
                /\ IsFunction(GetRawValue(heap, s, path[1]))
                /\ r.res.val # Fresh
  IN /\ CanCall
     /\ i' = r.i
     /\ heap' = IF cached THEN SetRawValue(heap, s, path[1], r.res.val) ELSE heap
     /\ Called([NoCall EXCEPT !.op = "read", !.s = s, !.path = path, !.res = r.res])
     /\ UNCHANGED permissionsMap

Read(s, path) ==
  LET r == ReadStore(permissionsMap, heap, i, s, path)
      follows == /\ last.op \in {"write", "read"}
                 /\ last.s = s
                 /\ last.path = path
                 /\ Len(path) = 1
                 /\ last.op = "write" => last.value = FnCounter /\ last.res.status = "ok"
                 /\ last.op = "read" => last.run > 0
  IN /\ CanCall
     /\ i' = r.i
     /\ Called([NoCall EXCEPT !.op = "read", !.s = s, !.path = path, !.res = r.res,
                              !.run = IF follows THEN last.run + 1 ELSE 0,
                              !.base = IF follows THEN last.base ELSE 0])
     /\ UNCHANGED <<heap, permissionsMap>>

Write(s, path, value) ==
  LET w == WriteStore(permissionsMap, heap, i, s, path, value)
  IN /\ CanCall
     /\ heap' = w.h
     /\ i' = w.i
     /\ Called([NoCall EXCEPT !.op = "write", !.s = s, !.path = path, !.value = value,
                              !.res = w.res, !.base = i])
     /\ UNCHANGED permissionsMap

WriteEntries(s, entries) ==
  LET w == WriteEntriesStore(permissionsMap, heap, i, s, entries)
  IN /\ CanCall
     /\ heap' = w.h
     /\ i' = w.i
     /\ Called([NoCall EXCEPT !.op = "writeEntries", !.s = s, !.entries = entries,
                              !.res = w.res])
     /\ UNCHANGED permissionsMap

Entries(s) ==
  LET e == EntriesStore(permissionsMap, heap, i, s, Len(heap))
  IN /\ CanCall
     /\ i' = e.i
     /\ Called([NoCall EXCEPT !.op = "entries", !.s = s, !.res = e.res])
     /\ UNCHANGED <<heap, permissionsMap>>

(***************************************************************************)
(* SpecPerm: the registry alone.  The root is an instance of Store or of   *)
(* Child with any defaultPolicy; the caller declares permissions for the   *)
(* instance and for the prototypes of its chain, reassigns defaultPolicy   *)
(* and asks allowedToRead and allowedToWrite.                              *)
(***************************************************************************)
InitPerm ==
  /\ \E cls \in Classes, policy \in Permission : heap = <<NewInstance(cls, policy)>>
  /\ permissionsMap = <<>>
  /\ i = 0
  /\ last = NoCall
  /\ calls = 0

PermOwners == {Inst(1), Proto("Child"), Proto("Store"), Proto("Object")}

NextPerm ==
  \/ \E owner \in PermOwners, permission \in Permission : Restrict(owner, "a", permission)
  \/ \E policy \in Permission : SetDefaultPolicy(1, policy)
  \/ \E key \in {"a", "b"} : AllowedToReadCall(1, key)
  \/ \E key \in {"a", "b"} : AllowedToWriteCall(1, key)

SpecPerm == InitPerm /\ [][NextPerm]_vars

(***************************************************************************)
(* C1.  Permission resolution for (instance, key) returns exactly one      *)
(* Permission: the instance's own declaration for the key if there is one, *)
(* else the declaration of the nearest type of the instance's chain that   *)
(* declares the key, else the instance's defaultPolicy; allowedToRead and  *)
(* allowedToWrite answer by it.  When a type declares the key as read and  *)
(* the instance declares it as write, allowedToWrite is true and           *)
(* allowedToRead is false.                                                 *)
(***************************************************************************)
DeclaringTypes(s, key) ==
  {n \in 1..Len(ProtoChain(heap[s].cls)) :
     HasPermission(permissionsMap, Proto(ProtoChain(heap[s].cls)[n]), key)}

NearestType(s, key) ==
  ProtoChain(heap[s].cls)[CHOOSE n \in DeclaringTypes(s, key) :
                            \A m \in DeclaringTypes(s, key) : n <= m]

ResolutionOrder ==
  \A s \in Stores, key \in Keys :
    LET p == GetPermissionForKey(permissionsMap, heap, s, key)
        inst == HasPermission(permissionsMap, Inst(s), key)
        types == DeclaringTypes(s, key)
    IN /\ p \in Permission
       /\ inst => p = permissionsMap[Inst(s)][key]
       /\ ~inst /\ types # {} => p = permissionsMap[Proto(NearestType(s, key))][key]
       /\ ~inst /\ types = {} => p = heap[s].defaultPolicy
       /\ AllowedToRead(permissionsMap, heap, s, key) <=> p \in {"r", "rw"}
       /\ AllowedToWrite(permissionsMap, heap, s, key) <=> p \in {"w", "rw"}
       /\ (inst /\ permissionsMap[Inst(s)][key] = "w" /\ types # {}
             /\ permissionsMap[Proto(NearestType(s, key))][key] = "r")
          => (last.op = "allowedToWrite" /\ last.s = s /\ last.path = <<key>>
                => last.res = Ok(TRUE))
             /\ (last.op = "allowedToRead" /\ last.s = s /\ last.path = <<key>>
                   => last.res = Ok(FALSE))

\* The instance's write declaration has won over a type's read declaration.
InstanceOverridesType ==
  /\ last.op = "allowedToWrite"
  /\ last.res = Ok(TRUE)
  /\ last.path = <<"a">>
  /\ HasPermission(permissionsMap, Inst(1), "a")
  /\ permissionsMap[Inst(1)]["a"] = "w"
  /\ DeclaringTypes(1, "a") # {}
  /\ permissionsMap[Proto(NearestType(1, "a"))]["a"] = "r"

(***************************************************************************)
(* Spec: one root Store c = heap[1], built by new Store().  The caller     *)
(* declares permissions for c itself and for the Store type, and reads,    *)
(* writes and snapshots c; the values written are a primitive, producers   *)
(* and the Stores built so far.                                            *)
(***************************************************************************)
TreePaths == {<<"a">>, <<"b">>, <<"a", "b">>, <<"b", "a">>, <<"a", "b", "a">>}

TreeValues == {Prim(1), FnUndef, FnFresh} \cup {StoreRef(s) : s \in Stores}

TreeOwners == {Inst(1), Proto("Store")}

Next ==
  \/ \E owner \in TreeOwners, key \in {"a", "b"}, permission \in Permission :
       Restrict(owner, key, permission)
  \/ \E path \in TreePaths : Read(1, path)
  \/ \E path \in TreePaths, value \in TreeValues : Write(1, path, value)
  \/ Entries(1)

Spec == Init /\ [][Next]_vars

(***************************************************************************)
(* The traversal of a path, stated from the heap h a call starts on.  A    *)
(* container reached is a Store of h, or 0 for a Store the call itself has *)
(* built (by new Store() or by a producer), which is empty, or -1 when the *)
(* traversal has ended before.                                             *)
(***************************************************************************)
PermAt(h, c, key) ==
  GetPermissionForKey(permissionsMap, Append(h, NewStore),
                      IF c = 0 THEN Len(h) + 1 ELSE c, key)

ReadableAt(h, c, key) == PermAt(h, c, key) \in {"r", "rw"}

WritableAt(h, c, key) == PermAt(h, c, key) \in {"w", "rw"}

Held(h, c, key) ==
  IF c <= 0 THEN Undef ELSE ResolveValue(h, 0, GetRawValue(h, c, key)).val

HoldsContainer(h, c, key) == IsStore(Held(h, c, key))

Below(h, c, key) ==
  IF HoldsContainer(h, c, key) /\ Held(h, c, key).v <= Len(h) THEN Held(h, c, key).v ELSE 0

\* The container write reaches at segment n: below a slot that holds no
\* container it is the one write builds there.
RECURSIVE WriteReach(_, _, _, _)
WriteReach(h, s, path, n) ==
  IF n = 1 THEN s ELSE Below(h, WriteReach(h, s, path, n - 1), path[n - 1])

\* The container read reaches at segment n: -1 below a slot that holds no
\* container.
RECURSIVE ReadReach(_, _, _, _)
ReadReach(h, s, path, n) ==
  IF n = 1 THEN s
  ELSE LET c == ReadReach(h, s, path, n - 1)
       IN IF c = -1 \/ ~HoldsContainer(h, c, path[n - 1]) THEN -1
          ELSE Below(h, c, path[n - 1])

Least(S) == CHOOSE n \in S : \A m \in S : n <= m

(***************************************************************************)
(* C2.  write(path, value) needs read permission at every intermediate     *)
(* segment, on its key in the container reached there, and write           *)
(* permission only at a segment whose slot holds no container (the slot it *)
(* replaces by a new one) and at the last segment: the call returns        *)
(* exactly when all these hold, and otherwise throws for the first segment *)
(* that fails, the read denial first.  So a write through a read-only key  *)
(* that holds a container succeeds when the rest of the path allows it,    *)
(* and a write through a write-only intermediate key is denied as a read.  *)
(***************************************************************************)
WriteNeedsRead(h, s, path, j) == j < Len(path)

WriteNeedsWrite(h, s, path, j) ==
  j = Len(path) \/ ~HoldsContainer(h, WriteReach(h, s, path, j), path[j])

WritePasses(h, s, path, j) ==
  /\ WriteNeedsRead(h, s, path, j) => ReadableAt(h, WriteReach(h, s, path, j), path[j])
  /\ WriteNeedsWrite(h, s, path, j) => WritableAt(h, WriteReach(h, s, path, j), path[j])

WriteFailures(h, s, path) == {j \in 1..Len(path) : ~WritePasses(h, s, path, j)}

WritePermissionRule ==
  (last.op = "write" /\ ~IsJSONObject(last.value)) =>
    LET h == last.pre
        path == last.path
        failing == WriteFailures(h, last.s, path)
        j == Least(failing)
    IN /\ last.res.status = "ok" <=> failing = {}
       /\ failing # {} =>
            last.res = IF /\ WriteNeedsRead(h, last.s, path, j)
                          /\ ~ReadableAt(h, WriteReach(h, last.s, path, j), path[j])
                       THEN AccessDenied("Read", path[j])
                       ELSE AccessDenied("Write", path[j])
       /\ \A n \in 1..(Len(path) - 1) :
            (/\ \A m \in 1..(n - 1) : WritePasses(h, last.s, path, m)
             /\ PermAt(h, WriteReach(h, last.s, path, n), path[n]) = "w")
            => last.res = AccessDenied("Read", path[n])

\* A write has gone through a read-only key that holds a container.
WriteThroughReadOnly ==
  /\ last.op = "write"
  /\ last.res.status = "ok"
  /\ Len(last.path) >= 2
  /\ PermAt(last.pre, last.s, last.path[1]) = "r"
  /\ HoldsContainer(last.pre, last.s, last.path[1])

(***************************************************************************)
(* C3.  read(path) throws AccessDenied exactly when its traversal reaches  *)
(* a segment whose key is not readable in the container reached there; the *)
(* error is that of the first such segment, names its key and the read,    *)
(* and is the outcome of the top-level call.  A key that resolves to none  *)
(* blocks every deeper read and every deeper write through it.             *)
(***************************************************************************)
ReadReaches(h, s, path, j) ==
  /\ ReadReach(h, s, path, j) # -1
  /\ \A m \in 1..(j - 1) : ReadableAt(h, ReadReach(h, s, path, m), path[m])

ReadDenials(h, s, path) ==
  {j \in 1..Len(path) :
     ReadReaches(h, s, path, j) /\ ~ReadableAt(h, ReadReach(h, s, path, j), path[j])}

ReadDenialRule ==
  /\ last.op = "read" =>
       LET denials == ReadDenials(last.pre, last.s, last.path)
       IN /\ last.res.status = "AccessDenied" <=> denials # {}
          /\ denials # {} => last.res = AccessDenied("Read", last.path[Least(denials)])
          /\ \A n \in 1..(Len(last.path) - 1) :
               (/\ ReadReaches(last.pre, last.s, last.path, n)
                /\ PermAt(last.pre, ReadReach(last.pre, last.s, last.path, n),
                          last.path[n]) = "none")
               => last.res = AccessDenied("Read", last.path[n])
  /\ last.op = "write" =>
       \A n \in 1..(Len(last.path) - 1) :
         (/\ \A m \in 1..(n - 1) : WritePasses(last.pre, last.s, last.path, m)
          /\ PermAt(last.pre, WriteReach(last.pre, last.s, last.path, n),
                    last.path[n]) = "none")
         => last.res = AccessDenied("Read", last.path[n])

\* A read has been denied below the root, at a key that holds a value there.
ReadDeniedBelowRoot ==
  /\ last.op = "read"
  /\ last.res.status = "AccessDenied"
  /\ Len(last.path) >= 2
  /\ last.res.key = last.path[2]
  /\ ReadReach(last.pre, last.s, last.path, 2) > 0
  /\ Held(last.pre, ReadReach(last.pre, last.s, last.path, 2), last.path[2]) # Undef

(***************************************************************************)
(* C4 as claimed.  For any container c with defaultPolicy = read-write,    *)
(* whatever c's slots held before, c.write(p, v) with a primitive v        *)
(* followed at once by c.read(p) returns v; and when c was empty before    *)
(* the write, c.entries() is exactly the nested object holding v at p.     *)
(***************************************************************************)
RECURSIVE NestedObject(_, _)
NestedObject(path, value) ==
  IF Len(path) = 1
  THEN Snap(path[1] :> value)
  ELSE Snap(path[1] :> NestedObject(Tail(path), value))

WasEmpty(h, s) == GetAllKeys(h, s) = <<>>

ReadBack == ReadStore(permissionsMap, heap, i, last.s, last.path).res

RoundTrip ==
  (/\ last.op = "write"
   /\ last.res.status = "ok"
   /\ last.value.t = "prim"
   /\ heap[last.s].defaultPolicy = "rw")
  => /\ ReadBack = Ok(last.value)
     /\ WasEmpty(last.pre, last.s) =>
          EntriesStore(permissionsMap, heap, i, last.s, Len(heap)).res
            = Ok(NestedObject(last.path, last.value))

(***************************************************************************)
(* C4 as amended.  The round trip holds when, besides, every key of p      *)
(* resolves to read-write in the container reached at its segment, no      *)
(* producer on the path builds a new container at each call, and no        *)
(* container is reached twice on the path: then the write returns v, the   *)
(* read that follows returns v, and when c was empty before the write      *)
(* c.entries() is exactly the nested object holding v at p.                *)
(***************************************************************************)
AllReadWrite(h, s, path) ==
  \A j \in 1..Len(path) : PermAt(h, WriteReach(h, s, path, j), path[j]) = "rw"

NoNewContainerProducer(h, s, path) ==
  \A j \in 1..(Len(path) - 1) :
    LET c == WriteReach(h, s, path, j)
    IN c > 0 /\ HoldsContainer(h, c, path[j]) => Held(h, c, path[j]).v <= Len(h)

ReachedOnce(h, s, path) ==
  \A j, k \in 1..Len(path) :
    (j # k /\ WriteReach(h, s, path, j) > 0)
      => WriteReach(h, s, path, j) # WriteReach(h, s, path, k)

RoundTripWhenReadable ==
  (/\ last.op = "write"
   /\ last.value.t = "prim"
   /\ heap[last.s].defaultPolicy = "rw"
   /\ AllReadWrite(last.pre, last.s, last.path)
   /\ NoNewContainerProducer(last.pre, last.s, last.path)
   /\ ReachedOnce(last.pre, last.s, last.path))
  => /\ last.res = Ok(last.value)
     /\ ReadBack = Ok(last.value)
     /\ WasEmpty(last.pre, last.s) =>
          EntriesStore(permissionsMap, heap, i, last.s, Len(heap)).res
            = Ok(NestedObject(last.path, last.value))

\* A three-segment write on the empty root has been read back.
RoundTripThreeDeep ==
  /\ last.op = "write"
  /\ last.value = Prim(1)
  /\ last.path = <<"a", "b", "a">>
  /\ WasEmpty(last.pre, last.s)
  /\ AllReadWrite(last.pre, last.s, last.path)
  /\ ReadBack = Ok(Prim(1))

\* A write over a slot that held a producer, through a nested container.
RoundTripOverProducer ==
  /\ last.op = "write"
  /\ last.value = Prim(1)
  /\ Len(last.path) = 2
  /\ AllReadWrite(last.pre, last.s, last.path)
  /\ HoldsContainer(last.pre, last.s, last.path[1])
  /\ IsFunction(GetRawValue(last.pre, WriteReach(last.pre, last.s, last.path, 2),
                            last.path[2]))
  /\ ReadBack = Ok(Prim(1))

(***************************************************************************)
(* C5.  Auto-vivification: when write reaches an intermediate segment      *)
(* whose slot is absent or resolves to anything but a container, and the   *)
(* key is readable and writable, the slot is overwritten with a new        *)
(* container (the previous value is gone) before the rest of the path is   *)
(* written into it.  Afterwards a read of that segment returns that        *)
(* container, which holds only what the rest of the path wrote: nothing    *)
(* but the next key, and, when the write returned a primitive's store and  *)
(* the rest is readable, its entries() is the nested object of the rest    *)
(* (write("p:q", "v") on an empty read-write container gives               *)
(* read("p").entries() = {q: "v"}).                                        *)
(***************************************************************************)
Vivifies(h, s, path, j) ==
  /\ j < Len(path)
  /\ WriteReach(h, s, path, j) > 0
  /\ \A m \in 1..(j - 1) : WritePasses(h, s, path, m)
  /\ ~HoldsContainer(h, WriteReach(h, s, path, j), path[j])
  /\ ReadableAt(h, WriteReach(h, s, path, j), path[j])
  /\ WritableAt(h, WriteReach(h, s, path, j), path[j])

Range(seq) == {seq[n] : n \in 1..Len(seq)}

AutoVivification ==
  last.op = "write" =>
    \A j \in 1..Len(last.path) :
      Vivifies(last.pre, last.s, last.path, j) =>
        LET c == WriteReach(last.pre, last.s, last.path, j)
            slot == GetRawValue(heap, c, last.path[j])
            rest == SubSeq(last.path, j + 1, Len(last.path))
            e == EntriesStore(permissionsMap, heap, i, slot.v, Len(heap)).res
        IN /\ IsStore(slot)
           /\ slot.v > Len(last.pre)
           /\ slot.v <= Len(heap)
           /\ ReadStore(permissionsMap, heap, i, c, <<last.path[j]>>).res = Ok(slot)
           /\ Range(GetAllKeys(heap, slot.v)) \subseteq {rest[1]}
           /\ e.status = "ok" => DOMAIN e.val.m \subseteq {rest[1]}
           /\ (/\ last.res.status = "ok"
               /\ last.value.t = "prim"
               /\ \A m \in 1..Len(rest) : ReadableAt(last.pre, 0, rest[m]))
              => e = Ok(NestedObject(rest, last.value))

\* write("a:b", 1) has replaced the primitive held at a by a container
\* whose entries() is {b: 1}.
VivifiedOverPrimitive ==
  /\ last.op = "write"
  /\ last.res.status = "ok"
  /\ last.path = <<"a", "b">>
  /\ Vivifies(last.pre, 1, last.path, 1)
  /\ GetRawValue(last.pre, 1, "a").t = "prim"
  /\ IsStore(GetRawValue(heap, 1, "a"))
  /\ EntriesStore(permissionsMap, heap, i, GetRawValue(heap, 1, "a").v, Len(heap)).res
       = Ok(Snap("b" :> Prim(1)))

(***************************************************************************)
(* C6.  entries() is permission-filtered at every level: in every state,   *)
(* for every container whose entries() returns, a key that is not readable *)
(* is absent from the snapshot and raises nothing, a key whose resolved    *)
(* value is undefined is absent, a readable key that holds a container     *)
(* appears with that container's entries(), and every other readable key   *)
(* appears with its resolved value.                                        *)
(***************************************************************************)
EntriesFiltered ==
  \A s \in Stores :
    LET e == EntriesStore(permissionsMap, heap, i, s, Len(heap)).res
    IN /\ e.status # "AccessDenied"
       /\ e.status = "ok" =>
            \A key \in Keys :
              LET rv == ResolveValue(heap, i, GetRawValue(heap, s, key))
                  readable == ReadableAt(heap, s, key)
              IN /\ ~readable => key \notin DOMAIN e.val.m
                 /\ rv.val = Undef => key \notin DOMAIN e.val.m
                 /\ readable /\ IsStore(rv.val) =>
                      /\ key \in DOMAIN e.val.m
                      /\ Ok(e.val.m[key])
                           = EntriesStore(permissionsMap, rv.h, i, rv.val.v, Len(heap)).res
                 /\ readable /\ ~IsStore(rv.val) /\ rv.val # Undef =>
                      /\ key \in DOMAIN e.val.m
                      /\ e.val.m[key] = rv.val

\* entries() has returned a snapshot that nests a container and leaves out
\* a key of that container which holds a value but is not readable.
EntriesLeftOutUnreadable ==
  /\ last.op = "entries"
  /\ last.res.status = "ok"
  /\ \E key \in DOMAIN last.res.val.m, hidden \in Keys :
       /\ IsStore(GetRawValue(heap, last.s, key))
       /\ last.res.val.m[key].t = "snap"
       /\ hidden \notin DOMAIN last.res.val.m[key].m
       /\ GetRawValue(heap, GetRawValue(heap, last.s, key).v, hidden).t = "prim"
       /\ ~ReadableAt(heap, GetRawValue(heap, last.s, key).v, hidden)

(***************************************************************************)
(* SpecLazy: the root Store and the counter producer () => ++i, written    *)
(* beside primitives and a constant producer, read back and snapshot.      *)
(***************************************************************************)
LazyPaths == {<<"a">>, <<"b">>}

LazyValues == {FnCounter, FnConst(2), Prim(1)}

NextLazy ==
  \/ \E path \in LazyPaths, value \in LazyValues : Write(1, path, value)
  \/ \E path \in LazyPaths \cup {<<"a", "b">>} : Read(1, path)
  \/ \E permission \in {"w", "rw"} : Restrict(Inst(1), "b", permission)
  \/ Entries(1)

SpecLazy == Init /\ [][NextLazy]_vars

(***************************************************************************)
(* C7.  A producer stored at a key is called anew at every read of the key *)
(* and its result is never cached: each read of a key that holds the       *)
(* counter producer advances the counter by one and returns it, the slot   *)
(* still holds the producer, and the k-th of the reads that follow the     *)
(* write of a new counter producer returns k (1, then 2).                  *)
(***************************************************************************)
LazyProducer ==
  (last.op = "read" /\ last.res.status = "ok" /\ Len(last.path) = 1) =>
    /\ GetRawValue(last.pre, last.s, last.path[1]) = FnCounter =>
         /\ last.res = Ok(Prim(last.prei + 1))
         /\ i = last.prei + 1
         /\ GetRawValue(heap, last.s, last.path[1]) = FnCounter
    /\ last.run > 0 =>
         /\ last.res = Ok(Prim(last.base + last.run))
         /\ last.base = 0 => last.res = Ok(Prim(last.run))
         /\ GetRawValue(heap, last.s, last.path[1]) = FnCounter

\* The second read after the write of a new counter producer has returned 2.
SecondReadReturnsTwo ==
  /\ last.op = "read"
  /\ last.run = 2
  /\ last.base = 0
  /\ last.res = Ok(Prim(2))

(***************************************************************************)
(* SpecImport: the root Store, permissions declared for it and for the     *)
(* Store type, and writeEntries of flat mappings whose values are          *)
(* primitives and nested plain objects.                                    *)
(***************************************************************************)
Imports ==
  {<<Entry(<<"a">>, Prim(1)), Entry(<<"b">>, Prim(2))>>,
   <<Entry(<<"b">>, Prim(2)), Entry(<<"a">>, Prim(1))>>,
   <<Entry(<<"a">>, Obj(<<Entry(<<"b">>, Prim(1))>>)), Entry(<<"b">>, Prim(2))>>,
   <<Entry(<<"b">>, Prim(1)),
     Entry(<<"a">>, Obj(<<Entry(<<"a">>, Obj(<<Entry(<<"b">>, Prim(2))>>))>>))>>}

NextImport ==
  \/ \E owner \in TreeOwners, key \in {"a", "b"}, permission \in Permission :
       Restrict(owner, key, permission)
  \/ \E m \in Imports : WriteEntries(1, m)
  \/ \E path \in {<<"a">>, <<"b">>, <<"a", "b">>} : Read(1, path)

SpecImport == Init /\ [][NextImport]_vars

\* What writeEntries leaves of entry n of m: the slot holds the value, a
\* plain object as a Store built by the call.
Imported(m, n) ==
  LET slot == GetRawValue(heap, last.s, m[n].k[1])
  IN IF IsJSONObject(m[n].v)
     THEN IsStore(slot) /\ slot.v > Len(last.pre) /\ slot.v <= Len(heap)
     ELSE slot = m[n].v

NotImported(m, n) ==
  GetRawValue(heap, last.s, m[n].k[1]) = GetRawValue(last.pre, last.s, m[n].k[1])

ReadsBack(m, n) ==
  ReadStore(permissionsMap, heap, i, last.s, m[n].k).res
    = Ok(GetRawValue(heap, last.s, m[n].k[1]))

(***************************************************************************)
(* C8 as claimed.  writeEntries(m) writes the keys of m in order; if some  *)
(* key of m is not writable, the call throws AccessDenied at that key,     *)
(* every key before it in m remains stored and readable, and no key after  *)
(* it in m is written.                                                     *)
(***************************************************************************)
Unwritable(m) ==
  {n \in 1..Len(m) : ~WritableAt(last.pre, last.s, m[n].k[1])}

FailFast ==
  (last.op = "writeEntries" /\ Unwritable(last.entries) # {}) =>
    LET m == last.entries
        j == Least(Unwritable(m))
    IN /\ last.res = AccessDenied("Write", m[j].k[1])
       /\ \A n \in 1..(j - 1) : Imported(m, n) /\ ReadsBack(m, n)
       /\ \A n \in (j + 1)..Len(m) : NotImported(m, n)

(***************************************************************************)
(* C8 as amended.  writeEntries(m) converts and writes the keys of m in    *)
(* order and throws AccessDenied at the first key that is not writable or  *)
(* whose plain-object value holds, at any depth, a key that is not         *)
(* writable in a new container; every key before it remains stored, and    *)
(* reads back when its permission allows read (the read is denied when it  *)
(* does not); that key and the keys after it are not written.  With no     *)
(* such key the call returns and every key is stored.                      *)
(***************************************************************************)
RECURSIVE ConversionDenied(_)
ConversionDenied(value) ==
  /\ IsJSONObject(value)
  /\ \E n \in 1..Len(value.e) :
       \/ ConversionDenied(value.e[n].v)
       \/ ~WritableAt(last.pre, 0, value.e[n].k[1])

ImportFails(m) ==
  {n \in 1..Len(m) :
     ConversionDenied(m[n].v) \/ ~WritableAt(last.pre, last.s, m[n].k[1])}

ImportFailFast ==
  last.op = "writeEntries" =>
    LET m == last.entries
        fails == ImportFails(m)
        j == IF fails = {} THEN Len(m) + 1 ELSE Least(fails)
    IN /\ last.res.status = "ok" <=> fails = {}
       /\ fails # {} => last.res.status = "AccessDenied" /\ last.res.op = "Write"
       /\ (fails # {} /\ ~ConversionDenied(m[j].v)) =>
            last.res = AccessDenied("Write", m[j].k[1])
       /\ \A n \in 1..(j - 1) :
            /\ Imported(m, n)
            /\ ReadableAt(heap, last.s, m[n].k[1]) => ReadsBack(m, n)
            /\ ~ReadableAt(heap, last.s, m[n].k[1]) =>
                 ReadStore(permissionsMap, heap, i, last.s, m[n].k).res
                   = AccessDenied("Read", m[n].k[1])
       /\ \A n \in j..Len(m) : NotImported(m, n)

\* An import has failed at its second key and left the first one stored.
ImportStoppedAtSecondKey ==
  /\ last.op = "writeEntries"
  /\ last.res = AccessDenied("Write", last.entries[2].k[1])
  /\ GetRawValue(last.pre, 1, last.entries[1].k[1]) = Undef
  /\ GetRawValue(heap, 1, last.entries[1].k[1]) = last.entries[1].v
  /\ ReadsBack(last.entries, 1)

(***************************************************************************)
(* C9 as claimed.  In every state the public operations reach, no          *)
(* container is held by two parent slots and no container is its own       *)
(* descendant: the containers form a forest.                               *)
(***************************************************************************)
Parents(t) ==
  {sk \in Stores \X Keys : GetRawValue(heap, sk[1], sk[2]) = StoreRef(t)}

Children(s) ==
  {t \in Stores : \E key \in Keys : GetRawValue(heap, s, key) = StoreRef(t)}

RECURSIVE Descendants(_, _)
Descendants(S, n) ==
  IF n = 0 THEN S
  ELSE Descendants(S \cup UNION {Children(t) : t \in S}, n - 1)

Forest ==
  /\ \A t \in Stores : Cardinality(Parents(t)) <= 1
  /\ \A s \in Stores : s \notin Descendants(Children(s), Len(heap))

(***************************************************************************)
(* C10 as claimed.  entries() runs to completion, and returns a snapshot,  *)
(* in every state of a container that write and writeEntries reach.        *)
(***************************************************************************)
EntriesReturns ==
  /\ last.op = "entries" => last.res.status = "ok"
  /\ \A s \in Stores :
       EntriesStore(permissionsMap, heap, i, s, Len(heap)).res.status = "ok"

(***************************************************************************)
(* SpecPolicy: the root Store with its defaultPolicy reassigned, the key a *)
(* declared for the root and for the Store type, the two gates asked, and  *)
(* reads, writes and snapshots of the root; the values written are a       *)
(* primitive, an array and side-effect-free producers.                     *)
(***************************************************************************)
PolicyPaths == {<<"a">>, <<"b">>, <<"a", "b">>}

PolicyValues == {Prim(1), Arr, FnConst(2), FnFresh}

NextPolicy ==
  \/ \E policy \in Permission : SetDefaultPolicy(1, policy)
  \/ \E owner \in TreeOwners, permission \in Permission : Restrict(owner, "a", permission)
  \/ \E key \in {"a", "b"} : AllowedToReadCall(1, key)
  \/ \E key \in {"a", "b"} : AllowedToWriteCall(1, key)
  \/ \E path \in PolicyPaths : Read(1, path)
  \/ \E path \in PolicyPaths, value \in PolicyValues : Write(1, path, value)
  \/ Entries(1)

SpecPolicy == Init /\ [][NextPolicy]_vars

(***************************************************************************)
(* C11.  For a container with defaultPolicy = none and no declared         *)
(* permission for the key x (none for the instance, none for a type of its *)
(* chain), allowedToRead(x) and allowedToWrite(x) are both false, read(x)  *)
(* throws AccessDenied for the read of x and write(x, 1) throws            *)
(* AccessDenied for the write of x and stores nothing; the calls made give *)
(* these outcomes.                                                         *)
(***************************************************************************)
Undeclared(s, key) ==
  ~HasPermission(permissionsMap, Inst(s), key) /\ DeclaringTypes(s, key) = {}

DefaultPolicyNone ==
  /\ \A s \in Stores, key \in Keys \cup InheritedMembers :
       (heap[s].defaultPolicy = "none" /\ Undeclared(s, key)) =>
         /\ ~AllowedToRead(permissionsMap, heap, s, key)
         /\ ~AllowedToWrite(permissionsMap, heap, s, key)
         /\ ReadStore(permissionsMap, heap, i, s, <<key>>).res = AccessDenied("Read", key)
         /\ WriteStore(permissionsMap, heap, i, s, <<key>>, Prim(1)).res
              = AccessDenied("Write", key)
         /\ WriteStore(permissionsMap, heap, i, s, <<key>>, Prim(1)).h = heap
  /\ (/\ last.op \in {"allowedToRead", "allowedToWrite", "read", "write"}
      /\ Len(last.path) = 1
      /\ last.pre[last.s].defaultPolicy = "none"
      /\ Undeclared(last.s, last.path[1]))
     => /\ last.op \in {"allowedToRead", "allowedToWrite"} => last.res = Ok(FALSE)
        /\ last.op = "read" => last.res = AccessDenied("Read", last.path[1])
        /\ last.op = "write" => last.res = AccessDenied("Write", last.path[1])
        /\ heap = last.pre

\* write("b", 1) has been denied on a root whose defaultPolicy is none and
\* that has no declaration for b.
WriteDeniedByDefaultPolicy ==
  /\ last.op = "write"
  /\ last.path = <<"b">>
  /\ last.value = Prim(1)
  /\ last.res = AccessDenied("Write", "b")
  /\ last.pre[1].defaultPolicy = "none"
  /\ Undeclared(1, "b")

(***************************************************************************)
(* C12.  Reading past a value that is not a container is no error: when    *)
(* the traversal of path reaches a segment before the last, every segment  *)
(* up to it is readable, and its slot resolves to a value that is not a    *)
(* container (absent, a primitive, an array, what a producer returns),     *)
(* read(path) returns undefined and throws nothing; so write("k", 5) then  *)
(* read("k:extra") returns undefined.                                      *)
(***************************************************************************)
PastPaths ==
  {<<"a", "b">>, <<"b", "a">>, <<"a", "a">>, <<"a", "b", "a">>,
   <<"toString", "a">>, <<"defaultPolicy", "a">>}

EndsAt(h, s, path, j) ==
  /\ j < Len(path)
  /\ ReadReaches(h, s, path, j)
  /\ ReadableAt(h, ReadReach(h, s, path, j), path[j])
  /\ ~HoldsContainer(h, ReadReach(h, s, path, j), path[j])

ReadPastNonContainer ==
  /\ \A s \in Stores, path \in PastPaths :
       (\E j \in 1..Len(path) : EndsAt(heap, s, path, j)) =>
         ReadStore(permissionsMap, heap, i, s, path).res = Ok(Undef)
  /\ (last.op = "read" /\ \E j \in 1..Len(last.path) : EndsAt(last.pre, last.s, last.path, j))
     => last.res = Ok(Undef)

\* read("a:b") has returned undefined over the primitive that write("a", 1)
\* stored.
ReadPastPrimitive ==
  /\ last.op = "read"
  /\ last.path = <<"a", "b">>
  /\ GetRawValue(last.pre, 1, "a") = Prim(1)
  /\ ReadableAt(last.pre, 1, "a")
  /\ last.res = Ok(Undef)

(***************************************************************************)
(* SpecWrite: the root Store, permissions declared for it and for the      *)
(* Store type, and writes of primitives, plain objects, producers and the  *)
(* Stores built so far, read back.                                         *)
(***************************************************************************)
WritePaths == {<<"a">>, <<"b">>, <<"a", "b">>, <<"a", "b", "a">>}

WriteValues ==
  {Prim(1), Obj(<<Entry(<<"b">>, Prim(2))>>), FnConst(2), FnFresh}
    \cup {StoreRef(s) : s \in Stores}

NextWrite ==
  \/ \E owner \in TreeOwners, key \in {"a", "b"}, permission \in Permission :
       Restrict(owner, key, permission)
  \/ \E path \in WritePaths, value \in WriteValues : Write(1, path, value)
  \/ \E path \in WritePaths : Read(1, path)

SpecWrite == Init /\ [][NextWrite]_vars

\* The container whose slot the write of path stores into, in the heap post
\* the call leaves: the traversal of write from the heap pre it started on;
\* -1 when a producer on the path built it and nothing holds it.
RECURSIVE FinalContainer(_, _, _, _)
FinalContainer(pre, post, c, path) ==
  IF Len(path) = 1 THEN c
  ELSE LET key == Head(path)
       IN IF c <= Len(pre) /\ HoldsContainer(pre, c, key)
          THEN IF Held(pre, c, key).v <= Len(pre)
               THEN FinalContainer(pre, post, Held(pre, c, key).v, Tail(path))
               ELSE -1
          ELSE FinalContainer(pre, post, GetRawValue(post, c, key).v, Tail(path))

ObjectKeys(value) == {value.e[n].k[1] : n \in 1..Len(value.e)}

ReturnsStored ==
  LET c == FinalContainer(last.pre, heap, last.s, last.path)
      key == last.path[Len(last.path)]
  IN /\ ~IsJSONObject(last.value) => last.res = Ok(last.value)
     /\ (IsJSONObject(last.value) /\ c # -1) =>
          /\ IsStore(last.res.val)
          /\ last.res.val.v > Len(last.pre)
          /\ last.res.val.v <= Len(heap)
          /\ Range(GetAllKeys(heap, last.res.val.v)) = ObjectKeys(last.value)
     /\ (IsJSONObject(last.value) /\ c = -1) => last.res = Ok(Fresh)
     /\ c # -1 => GetRawValue(heap, c, key) = last.res.val

(***************************************************************************)
(* C13 as claimed.  A successful write(path, value) returns the value      *)
(* stored in the final slot, through every level of delegation: the        *)
(* container built by the call when value is a plain object, value itself  *)
(* otherwise; and an immediate read of path resolves to that stored value  *)
(* (to what it returns, when it is a producer).                            *)
(***************************************************************************)
ResolvedBack == Reported(Ok(ResolveValue(heap, i, last.res.val).val), Len(heap))

WriteReturnsStoredAndReadsBack ==
  (last.op = "write" /\ last.res.status = "ok") =>
    /\ ReturnsStored
    /\ ReadBack = ResolvedBack

(***************************************************************************)
(* C13 as amended.  A successful write(path, value) returns the value      *)
(* stored in the final slot, through every level of delegation: the        *)
(* container built by the call when value is a plain object, value itself  *)
(* otherwise.  When every key of path is readable in the container reached *)
(* at its segment, no producer on the path builds a new container at each  *)
(* call and no container is reached twice on the path, an immediate read   *)
(* of path resolves to that stored value.                                  *)
(***************************************************************************)
AllReadable(h, s, path) ==
  \A j \in 1..Len(path) : ReadableAt(h, WriteReach(h, s, path, j), path[j])

WriteReturnsStored ==
  (last.op = "write" /\ last.res.status = "ok") =>
    /\ ReturnsStored
    /\ (/\ AllReadable(last.pre, last.s, last.path)
        /\ NoNewContainerProducer(last.pre, last.s, last.path)
        /\ ReachedOnce(last.pre, last.s, last.path))
       => ReadBack = ResolvedBack

\* write("a:b:a", {b: 2}) has returned the container it built, through two
\* levels of delegation, and the read that follows returns it.
WriteReturnedBuiltContainer ==
  /\ last.op = "write"
  /\ last.path = <<"a", "b", "a">>
  /\ IsJSONObject(last.value)
  /\ last.res.status = "ok"
  /\ IsStore(last.res.val)
  /\ AllReadable(last.pre, last.s, last.path)
  /\ ReadBack = last.res
  /\ ReadBack = ResolvedBack

(***************************************************************************)
(* SpecBook: the root Store and the names that are not plain keys: the     *)
(* bookkeeping names defaultPolicy and dynamicValues, which lines 176, 183 *)
(* and 192 set apart, and the inherited member toString.  The caller       *)
(* reassigns the root's defaultPolicy, declares permissions for the root,  *)
(* and writes, imports, reads and snapshots under these names.             *)
(***************************************************************************)
BookPaths ==
  {<<"a">>, <<"defaultPolicy">>, <<"dynamicValues">>, <<"toString">>,
   <<"a", "defaultPolicy">>}

BookValues ==
  {Prim(1), PermissionString("none"),
   Obj(<<Entry(<<"defaultPolicy">>, PermissionString("none"))>>)}

BookImports ==
  {<<Entry(<<"defaultPolicy">>, PermissionString("none")),
     Entry(<<"a">>, Obj(<<Entry(<<"dynamicValues">>, Prim(1))>>))>>}

NextBook ==
  \/ \E policy \in Permission : SetDefaultPolicy(1, policy)
  \/ \E key \in {"a", "defaultPolicy"}, permission \in Permission :
       Restrict(Inst(1), key, permission)
  \/ \E path \in BookPaths, value \in BookValues : Write(1, path, value)
  \/ \E m \in BookImports : WriteEntries(1, m)
  \/ \E path \in BookPaths : Read(1, path)
  \/ Entries(1)

SpecBook == Init /\ [][NextBook]_vars

(***************************************************************************)
(* C14 as claimed.  The snapshot entries() returns never has a bookkeeping *)
(* name (defaultPolicy, dynamicValues) as a key, at any level, in any      *)
(* state, a write whose key is one of these names included.                *)
(***************************************************************************)
BookkeepingNames == {"defaultPolicy", "dynamicValues"}

NoBookkeepingKeys ==
  /\ \A s \in Stores :
       LET e == EntriesStore(permissionsMap, heap, i, s, Len(heap)).res
       IN e.status = "ok" => DOMAIN e.val.m \cap BookkeepingNames = {}
  /\ (last.op = "entries" /\ last.res.status = "ok")
       => DOMAIN last.res.val.m \cap BookkeepingNames = {}

(***************************************************************************)
(* C15.  allowedToRead, allowedToWrite, read and entries are queries: with *)
(* producers that have no side effect, a call of any of them, whether it   *)
(* returns or throws AccessDenied, leaves every slot of every container,   *)
(* every defaultPolicy and the permission registry as they were.           *)
(***************************************************************************)
Queries == {"allowedToRead", "allowedToWrite", "read", "entries"}

QueriesArePure ==
  [][last'.op \in Queries =>
       /\ heap' = heap
       /\ permissionsMap' = permissionsMap
       /\ i' = i]_vars

\* read has returned what a producer held by the root returned, and the
\* slot still holds the producer.
ReadLeftProducer ==
  /\ last.op = "read"
  /\ Len(last.path) = 1
  /\ last.res = Ok(Prim(2))
  /\ GetRawValue(last.pre, 1, last.path[1]) = FnConst(2)
  /\ heap = last.pre

(***************************************************************************)
(* C16 as claimed.  A write(path, value) call that throws AccessDenied     *)
(* leaves every slot of every container as it was, whatever the registry   *)
(* holds (declarations for the Store type, which the containers built by   *)
(* the call resolve against, included) and at whatever segment the denial  *)
(* occurs.                                                                 *)
(***************************************************************************)
DeniedWriteChangesNothing ==
  (last.op = "write" /\ last.res.status = "AccessDenied") => heap = last.pre

(***************************************************************************)
(* SpecFrame: the root Store, permissions declared for it and for the      *)
(* Store type, writes of a primitive, of the producer () => new Store()    *)
(* and of the Stores built so far at paths through a and through b, reads  *)
(* and snapshots.                                                          *)
(***************************************************************************)
ShortPaths == {<<"a">>, <<"a", "b">>, <<"b", "a">>}

FrameValues == {Prim(1), FnFresh} \cup {StoreRef(s) : s \in Stores}

NextFrame ==
  \/ \E owner \in TreeOwners, key \in {"a", "b"}, permission \in Permission :
       Restrict(owner, key, permission)
  \/ \E path \in ShortPaths, value \in FrameValues : Write(1, path, value)
  \/ \E path \in ShortPaths : Read(1, path)
  \/ Entries(1)

SpecFrame == Init /\ [][NextFrame]_vars

(***************************************************************************)
(* The paths a write leaves aside, and the heaps that are trees.           *)
(***************************************************************************)
FramePaths ==
  {<<k1>> : k1 \in {"a", "b"}}
    \cup {<<k1, k2>> : k1 \in {"a", "b"}, k2 \in {"a", "b"}}
    \cup {<<k1, k2, k3>> : k1 \in {"a", "b"}, k2 \in {"a", "b"}, k3 \in {"a", "b"}}

IsPrefix(p, q) == Len(p) <= Len(q) /\ SubSeq(q, 1, Len(p)) = p

Incomparable(p, q) == ~IsPrefix(p, q) /\ ~IsPrefix(q, p)

ChildrenIn(h, s) ==
  {t \in 1..Len(h) : \E key \in Keys : GetRawValue(h, s, key) = StoreRef(t)}

RECURSIVE DescendantsIn(_, _, _)
DescendantsIn(h, S, n) ==
  IF n = 0 THEN S
  ELSE DescendantsIn(h, S \cup UNION {ChildrenIn(h, t) : t \in S}, n - 1)

TreeShaped(h) ==
  /\ \A t \in 1..Len(h) :
       Cardinality({sk \in (1..Len(h)) \X Keys :
                      GetRawValue(h, sk[1], sk[2]) = StoreRef(t)}) <= 1
  /\ \A s \in 1..Len(h) : s \notin DescendantsIn(h, ChildrenIn(h, s), Len(h))

ReadBefore(q) == ReadStore(permissionsMap, last.pre, last.prei, last.s, q).res

ReadAfter(q) == ReadStore(permissionsMap, heap, i, last.s, q).res

(***************************************************************************)
(* C17 as claimed.  A successful write(p, v) changes only what lies on p:  *)
(* in a tree with no shared containers, for every path q such that neither *)
(* p is a prefix of q nor q a prefix of p, the outcome of read(q) (value,  *)
(* undefined or AccessDenied) is the same before and after the write.      *)
(***************************************************************************)
WriteFrame ==
  (last.op = "write" /\ last.res.status = "ok" /\ TreeShaped(last.pre)) =>
    \A q \in FramePaths :
      Incomparable(last.path, q) => ReadBefore(q) = ReadAfter(q)

(***************************************************************************)
(* C17 as amended.  The outcome of read(q) is the same before and after    *)
(* the write, except when q leaves p below a segment whose slot the write  *)
(* has replaced by a new container, at a key that is not readable in a new *)
(* container: there read(q) returned undefined before the write and throws *)
(* AccessDenied for that key after it.                                     *)
(***************************************************************************)
Parting(p, q) == Least({k \in 1..Len(p) : k > Len(q) \/ p[k] # q[k]})

Replaced(h, s, p) ==
  {j \in 1..(Len(p) - 1) :
     WriteReach(h, s, p, j) > 0 /\ ~HoldsContainer(h, WriteReach(h, s, p, j), p[j])}

WriteFrameBelowNew ==
  (last.op = "write" /\ last.res.status = "ok" /\ TreeShaped(last.pre)) =>
    \A q \in FramePaths :
      Incomparable(last.path, q) =>
        LET k == Parting(last.path, q)
            below == \E j \in Replaced(last.pre, last.s, last.path) : j < k
        IN IF below /\ ~ReadableAt(last.pre, 0, q[k])
           THEN /\ ReadBefore(q) = Ok(Undef)
                /\ ReadAfter(q) = AccessDenied("Read", q[k])
           ELSE ReadBefore(q) = ReadAfter(q)

\* A write through a has left the primitive read at a path through b as it
\* was.
WriteKeptSibling ==
  /\ last.op = "write"
  /\ last.res.status = "ok"
  /\ last.path[1] = "a"
  /\ TreeShaped(last.pre)
  /\ ReadBefore(<<"b", "a">>) = Ok(Prim(1))
  /\ ReadAfter(<<"b", "a">>) = Ok(Prim(1))

(***************************************************************************)
(* C18 as claimed.  entries() and read agree in every state: for every     *)
(* container and key k, k is in the container's entries() exactly when     *)
(* read(k) on it throws nothing and returns a defined value; when that     *)
(* value is a container entries()[k] is its entries(), otherwise           *)
(* entries()[k] is the value read.                                         *)
(***************************************************************************)
Agree(s, key) ==
  LET e == EntriesStore(permissionsMap, heap, i, s, Len(heap)).res
      r == ReadStore(permissionsMap, heap, i, s, <<key>>).res
      defined == r.status = "ok" /\ r.val # Undef
  IN e.status = "ok" =>
       /\ key \in DOMAIN e.val.m <=> defined
       /\ (defined /\ IsStore(r.val)) =>
            Ok(e.val.m[key]) = EntriesStore(permissionsMap, heap, i, r.val.v, Len(heap)).res
       /\ (defined /\ r.val = Fresh) => e.val.m[key] = Snap(<<>>)
       /\ (defined /\ ~IsStore(r.val) /\ r.val # Fresh) => e.val.m[key] = r.val

EntriesAgreeWithRead ==
  \A s \in Stores, key \in Keys \cup BookkeepingNames \cup InheritedMembers : Agree(s, key)

(***************************************************************************)
(* C19.  A value that cannot be read cannot be observed: take the tree of  *)
(* a state and the tree that differs from it only by the value held under  *)
(* one key k of one container, k resolving there to a permission that does *)
(* not allow read (write or none); every read(path) on the root and the    *)
(* root's entries() give the same outcome, the same value or the same      *)
(* AccessDenied, in the two trees.                                         *)
(***************************************************************************)
OtherValues == {Prim(2), FnFresh, Undef} \cup {StoreRef(s) : s \in Stores}

Observations(h) ==
  [path \in TreePaths \cup {<<"root">>} |->
     IF path = <<"root">>
     THEN EntriesStore(permissionsMap, h, i, 1, Len(h)).res
     ELSE ReadStore(permissionsMap, h, i, 1, path).res]

Unobservable ==
  \A s \in Stores, key \in {"a", "b"} :
    ~ReadableAt(heap, s, key) =>
      \A value \in OtherValues :
        Observations(SetRawValue(heap, s, key, value)) = Observations(heap)

\* A read has been denied at a key of a nested container that holds a
\* primitive there.
HiddenValueDenied ==
  /\ last.op = "read"
  /\ last.res.status = "AccessDenied"
  /\ \E s \in Stores \ {1} :
       /\ ~ReadableAt(heap, s, last.res.key)
       /\ GetRawValue(heap, s, last.res.key) = Prim(1)
       /\ last.path = <<"a", last.res.key>>
       /\ GetRawValue(heap, 1, "a") = StoreRef(s)

(***************************************************************************)
(* C20.  Every container the store builds itself, for an intermediate      *)
(* segment of a write or for a plain-object value in write or              *)
(* writeEntries, has defaultPolicy = read-write, whatever the              *)
(* defaultPolicy and the instance declarations of the container it is      *)
(* built in; and no write, writeEntries, read or entries call changes the  *)
(* defaultPolicy of a container that existed before it, a write under the  *)
(* key defaultPolicy included.                                             *)
(***************************************************************************)
PolicyKept ==
  /\ \A s \in Stores \ {1} : heap[s].defaultPolicy = "rw"
  /\ last.op \in {"write", "writeEntries", "read", "entries"} =>
       /\ Len(heap) >= Len(last.pre)
       /\ \A s \in 1..Len(last.pre) : heap[s].defaultPolicy = last.pre[s].defaultPolicy
       /\ \A s \in (Len(last.pre) + 1)..Len(heap) :
            heap[s].defaultPolicy = "rw" /\ heap[s].cls = "Store"

\* write("a:defaultPolicy", "none") on a root whose defaultPolicy is none
\* has built a container at a: its defaultPolicy is read-write, the root's
\* is still none, and the string is a dynamic value of the new container.
PolicyOfBuiltContainer ==
  /\ last.op = "write"
  /\ last.path = <<"a", "defaultPolicy">>
  /\ last.value = PermissionString("none")
  /\ last.res.status = "ok"
  /\ heap[1].defaultPolicy = "none"
  /\ Len(heap) = Len(last.pre) + 1
  /\ heap[Len(heap)].defaultPolicy = "rw"
  /\ MapGet(heap[Len(heap)].dynamicValues, "defaultPolicy") = PermissionString("none")

====
